---------------------------- MODULE Spec2Model ----------------------------
(***************************************************************************)
(* Difficulty retargeting, proof-of-work check and proof-of-stake kernel   *)
(* checks of src/src/pow.cpp and src/src/pos.cpp.                          *)
(*                                                                         *)
(* A 256-bit unsigned integer (arith_uint256, uint256) is a function from  *)
(* byte positions 0..WIDTH-1 to bytes, least significant byte first, so    *)
(* that every operation keeps the 256-bit width: a shift or a product      *)
(* that leaves the width loses its high bytes as the C++ type does.        *)
(***************************************************************************)
EXTENDS Integers, Sequences, FiniteSets, TLC

\* ------------------------------------------------------------------------
\* arith_uint256: the 256-bit arithmetic the two files are written against
\* ------------------------------------------------------------------------

WIDTH == 32

Idx == 0 .. (WIDTH - 1)

Max(S) == CHOOSE x \in S : \A y \in S : y <= x

Pow2(n) == CASE n = 0 -> 1 [] n = 1 -> 2 [] n = 2 -> 4 [] n = 3 -> 8
             [] n = 4 -> 16 [] n = 5 -> 32 [] n = 6 -> 64 [] n = 7 -> 128
             [] OTHER -> 256

Pow256(n) == CASE n = 0 -> 1 [] n = 1 -> 256 [] n = 2 -> 65536
               [] OTHER -> 16777216

\* The limbs of a value, computed once
Limbs(f) == f @@ [i \in {} |-> 0]

\* arith_uint256(uint64_t b), for the values a 32-bit signed integer holds
FromU64(n) == Limbs([i \in Idx |-> IF i < 4 THEN (n \div Pow256(i)) % 256 ELSE 0])

IsZero(a) == \A i \in Idx : a[i] = 0

\* base_uint::CompareTo: -1, 0, 1 from the most significant differing limb
CompareTo(a, b) ==
    LET D == {i \in Idx : a[i] # b[i]}
    IN  IF D = {} THEN 0
        ELSE IF a[Max(D)] < b[Max(D)] THEN -1 ELSE 1

\* base_uint::bits: position of the highest set bit plus one, 0 for zero
bits(a) ==
    LET N == {i \in Idx : a[i] # 0}
    IN  IF N = {} THEN 0
        ELSE 8 * Max(N) + (CHOOSE n \in 1..8 : Pow2(n-1) <= a[Max(N)] /\ a[Max(N)] < Pow2(n))

\* operator<<= and operator>>= by a whole number of bytes
ShiftLeftBytes(a, k) == Limbs([i \in Idx |-> IF i >= k THEN a[i - k] ELSE 0])

ShiftRightBytes(a, k) == Limbs([i \in Idx |-> IF i + k < WIDTH THEN a[i + k] ELSE 0])

\* operator>>= 1
ShiftRight1(a) ==
    Limbs([i \in Idx |->
            (a[i] \div 2) + (IF i + 1 < WIDTH THEN (a[i + 1] % 2) * 128 ELSE 0)])

\* operator<<= 1: the bit shifted out of the top byte is lost
ShiftLeft1(a) ==
    Limbs([i \in Idx |-> ((a[i] * 2) % 256) + (IF i > 0 THEN a[i - 1] \div 128 ELSE 0)])

\* operator*=(uint32_t b32): limb by limb from the lowest with carry; the
\* carry out of the highest limb is lost
RECURSIVE MulFrom(_, _, _, _)
MulFrom(a, b32, i, carry) ==
    IF i = WIDTH THEN [j \in {} |-> 0]
    ELSE (i :> ((a[i] * b32 + carry) % 256))
            @@ MulFrom(a, b32, i + 1, (a[i] * b32 + carry) \div 256)

MulU32(a, b32) == MulFrom(a, b32, 0, 0)

\* operator/=(b) for a divisor that fits a machine word: the floor of a / b,
\* limb by limb from the highest with the remainder carried down
RECURSIVE DivFrom(_, _, _, _)
DivFrom(a, b, i, rem) ==
    IF i < 0 THEN [j \in {} |-> 0]
    ELSE (i :> ((rem * 256 + a[i]) \div b))
            @@ DivFrom(a, b, i - 1, (rem * 256 + a[i]) % b)

DivU64(a, b) == DivFrom(a, b, WIDTH - 1, 0)

\* arith_uint256::SetCompact(nCompact, &fNegative, &fOverflow)
SetCompact(nCompact) ==
    LET nSize == nCompact \div 16777216
        nWord == nCompact % 8388608
        sign  == (nCompact \div 8388608) % 2
        v     == IF nSize <= 3
                 THEN FromU64(nWord \div Pow256(3 - nSize))
                 ELSE ShiftLeftBytes(FromU64(nWord), nSize - 3)
    IN  [ v         |-> v,
          fNegative |-> (nWord # 0 /\ sign = 1),
          fOverflow |-> (nWord # 0 /\ (\/ nSize > 34
                                       \/ (nWord > 255 /\ nSize > 33)
                                       \/ (nWord > 65535 /\ nSize > 32))) ]

\* arith_uint256::GetCompact(false)
GetCompact(a) ==
    LET nSize == (bits(a) + 7) \div 8
        low   == a[0] + 256 * a[1] + 65536 * a[2]
        word  == IF nSize <= 3
                 THEN low * Pow256(3 - nSize)
                 ELSE LET s == ShiftRightBytes(a, nSize - 3)
                      IN  s[0] + 256 * s[1] + 65536 * s[2]
    IN  IF word >= 8388608
        THEN (nSize + 1) * 16777216 + (word \div 256)
        ELSE nSize * 16777216 + word

\* UintToArith256: the 32 bytes of the uint256 read as little-endian limbs
UintToArith256(h) == Limbs([i \in Idx |-> h[i]])

\* ------------------------------------------------------------------------
\* Chain index view: a chain is a function from heights 0..H to blocks
\* [nTime, nBits, fPoS]; a CBlockIndex pointer is a height, or NULL
\* ------------------------------------------------------------------------

NULL == -1

NoChain == [h \in {} |-> 0]

pprev(pindex) == IF pindex = 0 THEN NULL ELSE pindex - 1

\* CBlockIndex::GetAncestor(height)
GetAncestor(chain, pindex, height) ==
    IF height > pindex \/ height < 0 THEN NULL ELSE height

\* GetLastBlockIndex(pindex, fProofOfStake): the nearest block of the wanted
\* kind at or below pindex, or the genesis block when there is none
RECURSIVE GetLastBlockIndex(_, _, _)
GetLastBlockIndex(chain, pindex, fProofOfStake) ==
    IF pindex # NULL /\ pprev(pindex) # NULL /\ chain[pindex].fPoS # fProofOfStake
    THEN GetLastBlockIndex(chain, pprev(pindex), fProofOfStake)
    ELSE pindex

\* Consensus::Params::DifficultyAdjustmentInterval()
DifficultyAdjustmentInterval(params) ==
    params.nPowTargetTimespan \div params.nPowTargetSpacing

\* ------------------------------------------------------------------------
\* pow.cpp
\* ------------------------------------------------------------------------

GetTargetLimit(nTime, fProofOfStake, params) ==
    IF fProofOfStake
    THEN UintToArith256(params.posLimit)
    ELSE UintToArith256(params.powLimit)

\* The timespan after the two limit steps of CalculateNextWorkRequired
ClampTimespan(nActualTimespan, params) ==
    LET lo == IF nActualTimespan < params.nPowTargetTimespan \div 4
              THEN params.nPowTargetTimespan \div 4
              ELSE nActualTimespan
    IN  IF lo > params.nPowTargetTimespan * 4
        THEN params.nPowTargetTimespan * 4
        ELSE lo

\* CalculateNextWorkRequired without the ceiling in its last test
CalculateNextWorkRequiredNoCeiling(chain, pindexLast, nFirstBlockTime, params, fProofOfStake) ==
    LET nActualTimespan == ClampTimespan(chain[pindexLast].nTime - nFirstBlockTime, params)
        bnOld      == SetCompact(chain[pindexLast].nBits).v
        bnPowLimit == GetTargetLimit(chain[pindexLast].nTime, fProofOfStake, params)
        fShift     == bits(bnOld) > bits(bnPowLimit) - 1
        shifted    == IF fShift THEN ShiftRight1(bnOld) ELSE bnOld
        scaled     == DivU64(MulU32(shifted, nActualTimespan), params.nPowTargetTimespan)
        bnNew      == IF fShift THEN ShiftLeft1(scaled) ELSE scaled
    IN  IF IsZero(bnNew)
        THEN GetCompact(bnPowLimit)
        ELSE GetCompact(bnNew)

\* CalculateNextWorkRequired without the shift back after the scaling
CalculateNextWorkRequiredNoShiftBack(chain, pindexLast, nFirstBlockTime, params, fProofOfStake) ==
    LET nActualTimespan == ClampTimespan(chain[pindexLast].nTime - nFirstBlockTime, params)
        bnOld      == SetCompact(chain[pindexLast].nBits).v
        bnPowLimit == GetTargetLimit(chain[pindexLast].nTime, fProofOfStake, params)
        fShift     == bits(bnOld) > bits(bnPowLimit) - 1
        shifted    == IF fShift THEN ShiftRight1(bnOld) ELSE bnOld
        bnNew      == DivU64(MulU32(shifted, nActualTimespan), params.nPowTargetTimespan)
    IN  IF IsZero(bnNew) \/ CompareTo(bnNew, bnPowLimit) > 0
        THEN GetCompact(bnPowLimit)
        ELSE GetCompact(bnNew)

CalculateNextWorkRequired(chain, pindexLast, nFirstBlockTime, params, fProofOfStake) ==
    LET nActualTimespan == ClampTimespan(chain[pindexLast].nTime - nFirstBlockTime, params)
        bnOld      == SetCompact(chain[pindexLast].nBits).v
        bnPowLimit == GetTargetLimit(chain[pindexLast].nTime, fProofOfStake, params)
        fShift     == bits(bnOld) > bits(bnPowLimit) - 1
        shifted    == IF fShift THEN ShiftRight1(bnOld) ELSE bnOld
        scaled     == DivU64(MulU32(shifted, nActualTimespan), params.nPowTargetTimespan)
        bnNew      == IF fShift THEN ShiftLeft1(scaled) ELSE scaled
    IN  IF IsZero(bnNew) \/ CompareTo(bnNew, bnPowLimit) > 0
        THEN GetCompact(bnPowLimit)
        ELSE GetCompact(bnNew)

\* GetNextWorkRequired without the fast-reset rule
GetNextWorkRequiredNoFastReset(chain, pindexLast, pblock, fProofOfStake, params) ==
    LET nProofOfWorkLimit == GetCompact(UintToArith256(params.powLimit))
        pindexPrev   == GetLastBlockIndex(chain, pindexLast, FALSE)
        interval     == DifficultyAdjustmentInterval(params)
        nHeightFirst == IF pindexLast - (interval - 1) < 0
                        THEN 1
                        ELSE pindexLast - (interval - 1)
        pindexFirst  == GetAncestor(chain, pindexLast, nHeightFirst)
    IN  IF fProofOfStake
        THEN GetCompact(UintToArith256(params.posLimit))
        ELSE IF pindexLast = NULL \/ pindexLast <= params.BLOCK_HEIGHT_INIT
        THEN nProofOfWorkLimit
        ELSE IF pindexPrev = NULL \/ pprev(pindexPrev) = NULL
        THEN nProofOfWorkLimit
        ELSE IF pblock.nTime < chain[pindexLast].nTime + params.nPowTargetSpacing \div 3
        THEN chain[pindexLast].nBits \div 2
        ELSE CalculateNextWorkRequired(chain, pindexLast, chain[pindexFirst].nTime,
                                       params, fProofOfStake)

GetNextWorkRequired(chain, pindexLast, pblock, fProofOfStake, params) ==
    LET nProofOfWorkLimit == GetCompact(UintToArith256(params.powLimit))
        pindexPrev   == GetLastBlockIndex(chain, pindexLast, FALSE)
        interval     == DifficultyAdjustmentInterval(params)
        nHeightFirst == IF pindexLast - (interval - 1) < 0
                        THEN 1
                        ELSE pindexLast - (interval - 1)
        pindexFirst  == GetAncestor(chain, pindexLast, nHeightFirst)
    IN  IF fProofOfStake
        THEN GetCompact(UintToArith256(params.posLimit))
        ELSE IF pindexLast = NULL \/ pindexLast <= params.BLOCK_HEIGHT_INIT
        THEN nProofOfWorkLimit
        ELSE IF pindexPrev = NULL \/ pprev(pindexPrev) = NULL
        THEN nProofOfWorkLimit
        ELSE IF pblock.nTime > chain[pindexLast].nTime + params.nPowTargetSpacing * 5
        THEN nProofOfWorkLimit
        ELSE IF pblock.nTime < chain[pindexLast].nTime + params.nPowTargetSpacing \div 3
        THEN chain[pindexLast].nBits \div 2
        ELSE CalculateNextWorkRequired(chain, pindexLast, chain[pindexFirst].nTime,
                                       params, fProofOfStake)

\* CheckProofOfWork asking for a hash strictly below the target
CheckProofOfWorkStrict(hash, nBits, params) ==
    LET t == SetCompact(nBits)
    IN  IF \/ t.fNegative
           \/ IsZero(t.v)
           \/ t.fOverflow
           \/ CompareTo(t.v, UintToArith256(params.powLimit)) > 0
        THEN FALSE
        ELSE IF CompareTo(UintToArith256(hash), t.v) >= 0
        THEN FALSE
        ELSE TRUE

CheckProofOfWork(hash, nBits, params) ==
    LET t == SetCompact(nBits)
    IN  IF \/ t.fNegative
           \/ IsZero(t.v)
           \/ t.fOverflow
           \/ CompareTo(t.v, UintToArith256(params.powLimit)) > 0
        THEN FALSE
        ELSE IF CompareTo(UintToArith256(hash), t.v) > 0
        THEN FALSE
        ELSE TRUE

\* ------------------------------------------------------------------------
\* pos.cpp
\* ------------------------------------------------------------------------

\* a & b on non-negative integers
RECURSIVE BitAnd(_, _)
BitAnd(a, b) ==
    IF a = 0 \/ b = 0 THEN 0
    ELSE (a % 2) * (b % 2) + 2 * BitAnd(a \div 2, b \div 2)

CheckCoinStakeTimestamp(nTimeBlock, nTimeTx, params) ==
    IF ~(nTimeBlock = nTimeTx) /\ (BitAnd(nTimeTx, params.nStakeTimestampMask) = 0)
    THEN FALSE
    ELSE TRUE

CheckStakeBlockTimestamp(nTimeBlock, params) ==
    CheckCoinStakeTimestamp(nTimeBlock, nTimeBlock, params)

\* txPrev->vout[prevout.n].nValue; vout is a sequence, so output n is element
\* n + 1. The code does not check n: past the end the read is undefined, and
\* yields whatever value oob the memory there holds
VoutValue(txPrev, n, oob) ==
    IF n < Len(txPrev.vout) THEN txPrev.vout[n + 1] ELSE oob

\* CheckStakeKernelHash asking for more than the minimum age
CheckStakeKernelHashOlder(nBits, blockFrom, txPrev, prevout, nTimeTx, params, hashProofOfStake, oob) ==
    LET nValueIn == VoutValue(txPrev, prevout.n, oob)
        bnTarget == SetCompact(nBits).v
    IN  IF nValueIn = 0
        THEN FALSE
        ELSE IF blockFrom.nTime + params.nStakeMinAge >= nTimeTx
        THEN FALSE
        ELSE IF CompareTo(DivU64(UintToArith256(hashProofOfStake), nValueIn), bnTarget) > 0
        THEN FALSE
        ELSE TRUE

\* hashProofOfStake is the digest CHashWriter returns for the modifier of
\* pindexPrev, txPrev.nTime, prevout.hash, prevout.n and nTimeTx
CheckStakeKernelHash(nBits, blockFrom, txPrev, prevout, nTimeTx, params, hashProofOfStake, oob) ==
    LET nValueIn == VoutValue(txPrev, prevout.n, oob)
        bnTarget == SetCompact(nBits).v
    IN  IF nValueIn = 0
        THEN FALSE
        ELSE IF blockFrom.nTime + params.nStakeMinAge > nTimeTx
        THEN FALSE
        ELSE IF CompareTo(DivU64(UintToArith256(hashProofOfStake), nValueIn), bnTarget) > 0
        THEN FALSE
        ELSE TRUE

\* VerifyScript is the external script engine; scriptOK is its answer
VerifySignature(txFrom, txTo, nIn, scriptOK) ==
    LET txin == txTo.vin[nIn + 1]
    IN  IF txin.prevout.n >= Len(txFrom.vout)
        THEN FALSE
        ELSE IF txin.prevout.hash # txFrom.hash
        THEN FALSE
        ELSE scriptOK

\* CValidationState::DoS(level, ret): the penalty is added, the state becomes
\* invalid, ret is handed back
DoS(state, level) ==
    [nDoS |-> state.nDoS + level, mode |-> "MODE_INVALID"]

\* CheckProofOfStake looking the confirming block up before the signature
CheckProofOfStakeBlockFirst(tx, nBits, state, params, env) ==
    LET txin == tx.vin[1]
    IN  IF ~tx.fCoinStake
        THEN [ret |-> FALSE, state |-> state]
        ELSE IF ~env.txFound
        THEN [ret |-> FALSE, state |-> state]
        ELSE IF ~env.blockKnown
        THEN [ret |-> FALSE, state |-> state]
        ELSE IF ~VerifySignature(env.txPrev, tx, 0, env.scriptOK)
        THEN [ret |-> FALSE, state |-> DoS(state, 100)]
        ELSE IF ~CheckStakeKernelHash(nBits, env.blockFrom, env.txPrev, txin.prevout,
                                      tx.nTime, params, env.hashProofOfStake, env.oob)
        THEN [ret |-> FALSE, state |-> DoS(state, 1)]
        ELSE [ret |-> TRUE, state |-> state]

\* env is what the node holds when the call is made: txFound and txPrev (the
\* answer of GetTransaction for the hash of input 0), blockKnown and blockFrom
\* (mapBlockIndex for the block that confirmed txPrev), scriptOK and
\* hashProofOfStake. The result is the returned bool and the validation state
CheckProofOfStake(tx, nBits, state, params, env) ==
    LET txin == tx.vin[1]
    IN  IF ~tx.fCoinStake
        THEN [ret |-> FALSE, state |-> state]
        ELSE IF ~env.txFound
        THEN [ret |-> FALSE, state |-> state]
        ELSE IF ~VerifySignature(env.txPrev, tx, 0, env.scriptOK)
        THEN [ret |-> FALSE, state |-> DoS(state, 100)]
        ELSE IF ~env.blockKnown
        THEN [ret |-> FALSE, state |-> state]
        ELSE IF ~CheckStakeKernelHash(nBits, env.blockFrom, env.txPrev, txin.prevout,
                                      tx.nTime, params, env.hashProofOfStake, env.oob)
        THEN [ret |-> FALSE, state |-> DoS(state, 1)]
        ELSE [ret |-> TRUE, state |-> state]

\* pBlockTime is the caller's variable behind the pointer (never null here);
\* env.inWallet is pwalletMain->mapWallet.count(prevout.hash). The statement
\* return("...") converts a string literal, a non-null pointer, to bool
CheckKernel(nBits, nTime, prevout, pBlockTime, params, env) ==
    IF ~env.txFound
    THEN [ret |-> FALSE, pBlockTime |-> pBlockTime]
    ELSE IF ~env.blockKnown
    THEN [ret |-> FALSE, pBlockTime |-> pBlockTime]
    ELSE IF env.blockFrom.nTime + params.nStakeMinAge > nTime
    THEN [ret |-> FALSE, pBlockTime |-> pBlockTime]
    ELSE IF ~env.inWallet
    THEN [ret |-> TRUE, pBlockTime |-> env.blockFrom.nTime]
    ELSE [ret |-> CheckStakeKernelHash(nBits, env.blockFrom, env.txPrev, prevout,
                                       nTime, params, env.hashProofOfStake, env.oob),
          pBlockTime |-> env.blockFrom.nTime]

\* CacheKernel without the lookup, storing over what the cache holds
CacheKernelNoLookup(cache, prevout, txRead, blockRead, c) ==
    IF ~txRead
    THEN [cache |-> cache, nReads |-> 1]
    ELSE IF ~blockRead
    THEN [cache |-> cache, nReads |-> 2]
    ELSE [cache |-> [o \in DOMAIN cache \cup {prevout} |->
                        IF o = prevout THEN c ELSE cache[o]],
          nReads |-> 2]

\* The cache is a function from the outpoints it holds to their entries.
\* txRead and blockRead are the answers of ReadFromDisk and ReadBlockFromDisk,
\* c is the entry built from what they read. The result is the cache and the
\* number of storage reads made
CacheKernel(cache, prevout, txRead, blockRead, c) ==
    IF prevout \in DOMAIN cache
    THEN [cache |-> cache, nReads |-> 0]
    ELSE IF ~txRead
    THEN [cache |-> cache, nReads |-> 1]
    ELSE IF ~blockRead
    THEN [cache |-> cache, nReads |-> 2]
    ELSE [cache |-> [o \in DOMAIN cache \cup {prevout} |->
                        IF o \in DOMAIN cache THEN cache[o] ELSE c],
          nReads |-> 2]

\* ------------------------------------------------------------------------
\* Inputs
\* ------------------------------------------------------------------------

MaxHeight == 3
TimeWindow == 1
NumOutpoints == 3

\* w * 256^k with every byte below position k set to f
Lit(w, k, f) ==
    Limbs([i \in Idx |-> IF i < k THEN f
                         ELSE IF i - k < 4 THEN (w \div Pow256(i - k)) % 256 ELSE 0])

\* 0, 2^236 - 1, 2^255 - 1, the target of 0x1d00ffff, and 0xffff
Limits == { Lit(0, 0, 0), Lit(\h0fffff, 27, 255), Lit(\h7fffffff, 28, 255),
            Lit(\h00ffff, 26, 0), Lit(\h00ffff, 0, 0) }

\* compact values: valid targets of several sizes, zero, negative, overflowed
CompactValues ==
    { 0, \h1d00ffff, \h1e0fffff, \h1e0ffff0, \h207fffff, \h1c7fffff, \h2000ffff,
      \h03000001, \h0300ffff, \h02008000, \h01003456, \h1d80ffff, \h04923456,
      \h23000001, \h2100ffff, \h7f000001 }

Hashes ==
    { Lit(0, 0, 0), Lit(1, 0, 0), Lit(\h00ffff, 0, 0), Lit(\h010000, 0, 0),
      Lit(\h00fffe, 26, 255), Lit(\h00ffff, 26, 0), Lit(\h00ffff, 26, 1),
      Lit(\h0fffff, 27, 0), Lit(\h0fffff, 27, 255), Lit(\h100000, 27, 0),
      Lit(\h7fffffff, 28, 255), Lit(\hffffff, 29, 255) }

DefaultParams ==
    [ powLimit            |-> Lit(\h0fffff, 27, 255),
      posLimit            |-> Lit(\h0fffff, 27, 255),
      nPowTargetSpacing   |-> 60,
      nPowTargetTimespan  |-> 86400,
      nStakeMinAge        |-> 3600,
      nStakeTimestampMask |-> 15,
      BLOCK_HEIGHT_INIT   |-> 1 ]

Near(t) == (t - TimeWindow) .. (t + TimeWindow)

PowArgs ==
    { [hash |-> h, nBits |-> b, params |-> [DefaultParams EXCEPT !.powLimit = l]] :
        h \in Hashes, b \in CompactValues, l \in Limits }

\* CalculateNextWorkRequired reads the time and the bits of the last block only
LastTime == 1000000

OneBlock(nTime, nBits) ==
    [h \in {0} |-> [nTime |-> nTime, nBits |-> nBits, fPoS |-> FALSE]]

LimitPairs ==
    { <<Lit(\h0fffff, 27, 255), Lit(\h7fffffff, 28, 255)>>,
      <<Lit(\h7fffffff, 28, 255), Lit(\h00ffff, 26, 0)>>,
      <<Lit(\h00ffff, 26, 0), Lit(\h00ffff, 0, 0)>>,
      <<Lit(\h00ffff, 0, 0), Lit(\h0fffff, 27, 255)>> }

Timespans(T) == {-1, 0} \cup Near(T \div 4) \cup Near(T) \cup Near(T * 4)

CalcArgs ==
    { [chain |-> OneBlock(LastTime, b), pindexLast |-> 0,
       nFirstBlockTime |-> LastTime - d,
       params |-> [DefaultParams EXCEPT !.powLimit = l[1], !.posLimit = l[2],
                                        !.nPowTargetTimespan = T],
       fProofOfStake |-> f] :
        b \in CompactValues, T \in {86400, 12}, d \in Timespans(86400) \cup Timespans(12),
        l \in LimitPairs, f \in BOOLEAN }

\* GetNextWorkRequired walks a chain: block h is made step seconds after block
\* h - 1, the blocks in pos are proof-of-stake, the last block carries nBits
Chain(H, step, pos, nBits) ==
    [h \in 0 .. H |-> [nTime |-> 1000 + h * step,
                       nBits |-> IF h = H THEN nBits ELSE \h1e0fffff,
                       fPoS  |-> h \in pos]]

ChainParams ==
    { [DefaultParams EXCEPT !.nPowTargetSpacing = st[1], !.nPowTargetTimespan = st[2],
                            !.BLOCK_HEIGHT_INIT = i] :
        st \in {<<4, 12>>, <<6, 24>>}, i \in {0, 1} }

\* the step between blocks that puts the first block of the interval exactly
\* one target timespan before the last
OnSchedule(params) ==
    params.nPowTargetTimespan \div (DifficultyAdjustmentInterval(params) - 1)

CandidateDelays(params) ==
    {0, params.nPowTargetSpacing} \cup Near(params.nPowTargetSpacing \div 3)
        \cup Near(params.nPowTargetSpacing * 5)

NextArgsAt(p, H) ==
    { [chain |-> Chain(H, step, pos, b), pindexLast |-> H,
       pblock |-> [nTime |-> 1000 + H * step + d[2]],
       fProofOfStake |-> d[1], params |-> p] :
        step \in {1, OnSchedule(p)}, pos \in SUBSET (0 .. H),
        b \in {\h1d00ffff, \h1e0fffff, 0},
        d \in ({FALSE} \X CandidateDelays(p)) \cup {<<TRUE, p.nPowTargetSpacing>>} }

NextArgs ==
    UNION { NextArgsAt(p, H) : p \in ChainParams, H \in 0 .. MaxHeight }
    \cup { [chain |-> NoChain, pindexLast |-> NULL, pblock |-> [nTime |-> 1000],
            fProofOfStake |-> f, params |-> p] : f \in BOOLEAN, p \in ChainParams }

StakeTimes == {0, 32} \cup Near(16)

TimestampArgs ==
    { [nTimeBlock |-> b, nTimeTx |-> t,
       params |-> [DefaultParams EXCEPT !.nStakeTimestampMask = m]] :
        b \in StakeTimes, t \in StakeTimes, m \in {15, 3} }

BlockTimestampArgs ==
    { [nTimeBlock |-> b,
       params |-> [DefaultParams EXCEPT !.nStakeTimestampMask = m]] :
        b \in StakeTimes, m \in {15, 3} }

\* the coin being staked: the previous transaction and the outpoint into it
TxPrevs ==
    { [hash |-> "txPrev", nTime |-> 900, vout |-> v] :
        v \in {<<0>>, <<1>>, <<16>>, <<0, 2>>} }

Prevouts == { [hash |-> "txPrev", n |-> n] : n \in {0, 1} }

BlockFromTime == 1000

KernelHashes ==
    { Lit(0, 0, 0), Lit(\h00ffff, 26, 0), Lit(\h00ffff, 26, 1),
      Lit(\h01fffe, 26, 1), Lit(\h0ffff0, 26, 255), Lit(\hffffff, 29, 255) }

KernelArgs ==
    { [nBits |-> b, blockFrom |-> [nTime |-> BlockFromTime], txPrev |-> t,
       prevout |-> o, nTimeTx |-> BlockFromTime + a + d,
       params |-> [DefaultParams EXCEPT !.nStakeMinAge = a],
       hashProofOfStake |-> h, oob |-> g] :
        b \in {\h1d00ffff, 0}, t \in TxPrevs, o \in Prevouts, a \in {3600, 0},
        d \in Near(0), h \in KernelHashes, g \in {0, 3} }

Envs ==
    { [txFound |-> tf, txPrev |-> t, blockKnown |-> bk,
       blockFrom |-> [nTime |-> BlockFromTime], scriptOK |-> ok,
       inWallet |-> w, hashProofOfStake |-> h, oob |-> g] :
        tf \in BOOLEAN, t \in {[hash |-> "txPrev", nTime |-> 900, vout |-> <<2>>]},
        bk \in BOOLEAN, ok \in BOOLEAN, w \in BOOLEAN,
        h \in {Lit(\h00ffff, 26, 0), Lit(\h0ffff0, 26, 255)}, g \in {0, 3} }

CoinStakes ==
    { [fCoinStake |-> TRUE, vin |-> <<[prevout |-> o]>>,
       nTime |-> BlockFromTime + DefaultParams.nStakeMinAge + d] :
        o \in Prevouts, d \in Near(0) }
    \cup { [fCoinStake |-> FALSE, vin |-> v, nTime |-> BlockFromTime + DefaultParams.nStakeMinAge] :
            v \in {<<>>, <<[prevout |-> [hash |-> "txPrev", n |-> 0]]>>} }

ValidationStates == { [nDoS |-> n, mode |-> "MODE_VALID"] : n \in {0, 7} }

StakeArgs ==
    { [tx |-> tx, nBits |-> \h1d00ffff, state |-> st, params |-> DefaultParams, env |-> e] :
        tx \in CoinStakes, st \in ValidationStates, e \in {x \in Envs : x.inWallet} }

KernelSearchArgs ==
    { [nBits |-> \h1d00ffff, nTime |-> BlockFromTime + DefaultParams.nStakeMinAge + d,
       prevout |-> o, pBlockTime |-> 0, params |-> DefaultParams, env |-> e] :
        d \in Near(0), o \in Prevouts, e \in Envs }

Outpoints == { [hash |-> "txPrev", n |-> n] : n \in 0 .. (NumOutpoints - 1) }

\* what the two storage reads can hand back for an outpoint
Entries(prevout) == { [prevout |-> prevout, block |-> b] : b \in {"blockA", "blockB"} }

\* ------------------------------------------------------------------------
\* State
\* ------------------------------------------------------------------------

VARIABLES
    op,      \* the function the caller calls
    args,    \* its arguments and what the node holds at the call
    pc,      \* "call" before the call, "done" after it
    ret,     \* what the call returned
    cache    \* the stake cache handed to CacheKernel

vars == <<op, args, pc, ret, cache>>

NoCache == [o \in {} |-> 0]

Pure == { "CheckProofOfWork", "CalculateNextWorkRequired", "GetNextWorkRequired",
          "CheckCoinStakeTimestamp", "CheckStakeBlockTimestamp",
          "CheckStakeKernelHash", "CheckProofOfStake", "CheckKernel" }

ArgsOf(f) ==
    CASE f = "CheckProofOfWork" -> PowArgs
      [] f = "CalculateNextWorkRequired" -> CalcArgs
      [] f = "GetNextWorkRequired" -> NextArgs
      [] f = "CheckCoinStakeTimestamp" -> TimestampArgs
      [] f = "CheckStakeBlockTimestamp" -> BlockTimestampArgs
      [] f = "CheckStakeKernelHash" -> KernelArgs
      [] f = "CheckProofOfStake" -> StakeArgs
      [] f = "CheckKernel" -> KernelSearchArgs
      [] OTHER -> {"none"}

InitOf(F) ==
    /\ pc = "call"
    /\ ret = "none"
    /\ cache = NoCache
    /\ op \in F
    /\ args \in ArgsOf(op)

Init == InitOf(Pure \cup {"CacheKernel"})

Return(f, value) ==
    /\ pc = "call"
    /\ op = f
    /\ ret' = value
    /\ pc' = "done"
    /\ UNCHANGED <<op, args, cache>>

CallCheckProofOfWork ==
    Return("CheckProofOfWork", CheckProofOfWork(args.hash, args.nBits, args.params))

CallCalculateNextWorkRequired ==
    Return("CalculateNextWorkRequired",
           CalculateNextWorkRequired(args.chain, args.pindexLast, args.nFirstBlockTime,
                                     args.params, args.fProofOfStake))

CallGetNextWorkRequired ==
    Return("GetNextWorkRequired",
           GetNextWorkRequired(args.chain, args.pindexLast, args.pblock,
                               args.fProofOfStake, args.params))

CallCheckCoinStakeTimestamp ==
    Return("CheckCoinStakeTimestamp",
           CheckCoinStakeTimestamp(args.nTimeBlock, args.nTimeTx, args.params))

CallCheckStakeBlockTimestamp ==
    Return("CheckStakeBlockTimestamp",
           CheckStakeBlockTimestamp(args.nTimeBlock, args.params))

CallCheckStakeKernelHash ==
    Return("CheckStakeKernelHash",
           CheckStakeKernelHash(args.nBits, args.blockFrom, args.txPrev, args.prevout,
                                args.nTimeTx, args.params, args.hashProofOfStake,
                                args.oob))

CallCheckProofOfStake ==
    Return("CheckProofOfStake",
           CheckProofOfStake(args.tx, args.nBits, args.state, args.params, args.env))

CallCheckKernel ==
    Return("CheckKernel",
           CheckKernel(args.nBits, args.nTime, args.prevout, args.pBlockTime,
                       args.params, args.env))

\* one call of CacheKernel on the cache, for any outpoint and any answer of
\* the storage; ret keeps the outpoint and the number of storage reads
CallCacheKernel ==
    /\ op = "CacheKernel"
    /\ \E prevout \in Outpoints, txRead \in BOOLEAN, blockRead \in BOOLEAN :
         \E c \in Entries(prevout) :
            LET r == CacheKernel(cache, prevout, txRead, blockRead, c)
            IN  /\ cache' = r.cache
                /\ ret' = [prevout |-> prevout, nReads |-> r.nReads,
                           txRead |-> txRead, blockRead |-> blockRead]
    /\ pc' = "done"
    /\ UNCHANGED <<op, args>>

Next ==
    \/ CallCheckProofOfWork
    \/ CallCalculateNextWorkRequired
    \/ CallGetNextWorkRequired
    \/ CallCheckCoinStakeTimestamp
    \/ CallCheckStakeBlockTimestamp
    \/ CallCheckStakeKernelHash
    \/ CallCheckProofOfStake
    \/ CallCheckKernel
    \/ CallCacheKernel

Spec == Init /\ [][Next]_vars

\* The same program with the caller held to one group of functions
PowSpec == InitOf({"CheckProofOfWork"}) /\ [][CallCheckProofOfWork]_vars

RetargetNext ==
    \/ CallCalculateNextWorkRequired
    \/ CallGetNextWorkRequired

RetargetSpec ==
    InitOf({"CalculateNextWorkRequired", "GetNextWorkRequired"}) /\ [][RetargetNext]_vars

StakeNext ==
    \/ CallCheckCoinStakeTimestamp
    \/ CallCheckStakeBlockTimestamp
    \/ CallCheckStakeKernelHash
    \/ CallCheckProofOfStake
    \/ CallCheckKernel

StakeSpec ==
    InitOf({"CheckCoinStakeTimestamp", "CheckStakeBlockTimestamp",
            "CheckStakeKernelHash", "CheckProofOfStake", "CheckKernel"})
        /\ [][StakeNext]_vars

CacheSpec == InitOf({"CacheKernel"}) /\ [][CallCacheKernel]_vars

\* ------------------------------------------------------------------------
\* Claims
\* ------------------------------------------------------------------------

Returned(f) == op = f /\ pc = "done"

LessEq(a, b) == CompareTo(a, b) <= 0

\* C1: CheckProofOfWork returns true exactly when decoding nBits reports
\* neither negative nor overflow, the decoded target is non-zero and not
\* above the PoW limit, and the hash as a 256-bit unsigned integer is not
\* above the decoded target; in every other case it returns false.
C1_CheckProofOfWorkIff ==
    Returned("CheckProofOfWork") =>
        LET t == SetCompact(args.nBits)
        IN  /\ ret \in BOOLEAN
            /\ ret = TRUE <=> /\ ~t.fNegative
                              /\ ~t.fOverflow
                              /\ ~IsZero(t.v)
                              /\ LessEq(t.v, args.params.powLimit)
                              /\ LessEq(args.hash, t.v)

\* a call that passes on the boundary: the target is the limit and the hash
\* is the target
C1_Witness ==
    /\ Returned("CheckProofOfWork")
    /\ ret = TRUE
    /\ args.hash = SetCompact(args.nBits).v
    /\ args.params.powLimit = SetCompact(args.nBits).v

\* The ceiling the flag selects
Ceiling(a) == IF a.fProofOfStake THEN a.params.posLimit ELSE a.params.powLimit

Last(a) == a.chain[a.pindexLast]

\* the number of bits of a positive machine integer
RECURSIVE BitLength(_)
BitLength(n) == IF n = 0 THEN 0 ELSE 1 + BitLength(n \div 2)

\* the old target as CalculateNextWorkRequired scales it: halved when its
\* bit length reaches the ceiling's
ShiftGuard(a) == bits(SetCompact(Last(a).nBits).v) > bits(Ceiling(a)) - 1

Scaled(a) ==
    IF ShiftGuard(a)
    THEN ShiftRight1(SetCompact(Last(a).nBits).v)
    ELSE SetCompact(Last(a).nBits).v

\* C2: the compact value CalculateNextWorkRequired returns decodes to a
\* target above zero and not above the ceiling the flag selects, for every
\* input, also when the product with the clamped timespan leaves 256 bits.
C2_RetargetWithinCeiling ==
    Returned("CalculateNextWorkRequired") =>
        /\ ~IsZero(SetCompact(ret).v)
        /\ LessEq(SetCompact(ret).v, Ceiling(args))

\* a call whose product wrapped: dividing it by the timespan does not give
\* the scaled target back
C2_Witness ==
    /\ Returned("CalculateNextWorkRequired")
    /\ LET n == ClampTimespan(Last(args).nTime - args.nFirstBlockTime, args.params)
       IN  DivU64(MulU32(Scaled(args), n), n) # Scaled(args)

\* the observed timespan of a CalculateNextWorkRequired call is the target
OnTarget(a) == Last(a).nTime - a.nFirstBlockTime = a.params.nPowTargetTimespan

\* a GetNextWorkRequired call for a proof-of-work candidate that is past the
\* bootstrap rule and the ancestor rule
PastBootstrap(a) ==
    /\ ~a.fProofOfStake
    /\ a.pindexLast # NULL
    /\ a.pindexLast > a.params.BLOCK_HEIGHT_INIT
    /\ \E h \in 1 .. a.pindexLast :
          /\ ~a.chain[h].fPoS
          /\ \A j \in (h + 1) .. a.pindexLast : a.chain[j].fPoS

FastReset(a) == a.pblock.nTime > Last(a).nTime + a.params.nPowTargetSpacing * 5

FastBlock(a) == a.pblock.nTime < Last(a).nTime + a.params.nPowTargetSpacing \div 3

\* the height the retarget interval starts at
HeightFirst(a) ==
    IF a.pindexLast - (DifficultyAdjustmentInterval(a.params) - 1) < 0
    THEN 1
    ELSE a.pindexLast - (DifficultyAdjustmentInterval(a.params) - 1)

\* a GetNextWorkRequired call that reaches the retarget with the interval
\* exactly on schedule
ChainOnTarget(a) ==
    /\ PastBootstrap(a)
    /\ ~FastReset(a)
    /\ ~FastBlock(a)
    /\ Last(a).nTime - a.chain[HeightFirst(a)].nTime = a.params.nPowTargetTimespan

SameTarget(a, nCompact) == SetCompact(nCompact).v = SetCompact(Last(a).nBits).v

\* C3 as stated: with the observed timespan equal to the target timespan the
\* returned compact value decodes to what the last block's bits decode to,
\* from CalculateNextWorkRequired and so from GetNextWorkRequired.
C3_Original ==
    /\ Returned("CalculateNextWorkRequired") /\ OnTarget(args) => SameTarget(args, ret)
    /\ Returned("GetNextWorkRequired") /\ ChainOnTarget(args) => SameTarget(args, ret)

\* the old target survives the scaling: it is a target the chain accepts
\* (above zero, not above the ceiling), the one-bit shift drops no set bit,
\* and the product with the target timespan stays within 256 bits
Survives(a) ==
    /\ ~IsZero(SetCompact(Last(a).nBits).v)
    /\ LessEq(SetCompact(Last(a).nBits).v, Ceiling(a))
    /\ ShiftGuard(a) => SetCompact(Last(a).nBits).v[0] % 2 = 0
    /\ bits(Ceiling(a)) + BitLength(a.params.nPowTargetTimespan) <= 257

\* C3 (amended): with the observed timespan equal to the target timespan,
\* and an old target that is above zero, not above the ceiling, even when
\* the shift guard applies, and small enough for the product with the target
\* timespan to fit 256 bits, the returned compact value decodes to the old
\* target, from CalculateNextWorkRequired and from GetNextWorkRequired.
C3_RetargetKeepsTarget ==
    /\ Returned("CalculateNextWorkRequired") /\ OnTarget(args) /\ Survives(args)
          => SameTarget(args, ret)
    /\ Returned("GetNextWorkRequired") /\ ChainOnTarget(args) /\ Survives(args)
          => SameTarget(args, ret)

\* an on-schedule retarget through GetNextWorkRequired where the shift guard
\* applied and the compact value came back re-encoded
C3_Witness ==
    /\ Returned("GetNextWorkRequired")
    /\ ChainOnTarget(args)
    /\ Survives(args)
    /\ ShiftGuard(args)
    /\ SameTarget(args, ret)

\* C4: for a proof-of-work candidate past the bootstrap, ancestor and
\* fast-reset rules whose time is below the last block's time plus a third
\* of the target spacing, GetNextWorkRequired returns a compact value that
\* decodes to half of the target the last block's bits decode to.
C4_FastBlockHalvesTarget ==
    Returned("GetNextWorkRequired") /\ PastBootstrap(args) /\ ~FastReset(args)
            /\ FastBlock(args)
        => SetCompact(ret).v = ShiftRight1(SetCompact(Last(args).nBits).v)

\* C5: for a proof-of-work candidate on a last block above the initial
\* height, a candidate time more than 5 target spacings after the last
\* block's time gives the PoW limit in compact form, whatever the last
\* block's bits and whatever the chain below it.
C5_FastResetGivesLimit ==
    Returned("GetNextWorkRequired") /\ ~args.fProofOfStake /\ args.pindexLast # NULL
            /\ args.pindexLast > args.params.BLOCK_HEIGHT_INIT /\ FastReset(args)
        => ret = GetCompact(args.params.powLimit)

\* a fast reset past the ancestor rule that replaced bits other than the limit
C5_Witness ==
    /\ Returned("GetNextWorkRequired")
    /\ PastBootstrap(args)
    /\ FastReset(args)
    /\ Last(args).nBits # GetCompact(args.params.powLimit)
    /\ ret = GetCompact(args.params.powLimit)

\* a fast reset on a chain of proof-of-stake blocks only
C5_WitnessNoAncestor ==
    /\ Returned("GetNextWorkRequired")
    /\ ~args.fProofOfStake
    /\ args.pindexLast > args.params.BLOCK_HEIGHT_INIT
    /\ \A h \in 0 .. args.pindexLast : args.chain[h].fPoS
    /\ FastReset(args)

\* the age rule of the kernel check, for a call of CheckStakeKernelHash
TooYoung(a) == a.blockFrom.nTime + a.params.nStakeMinAge > a.nTimeTx

StakedValue(a) == VoutValue(a.txPrev, a.prevout.n, a.oob)

\* C6: CheckStakeKernelHash returns false whenever the confirming block's
\* time plus the minimum age is above the candidate time, for every hash,
\* target and staked value; a candidate time equal to that sum is not
\* rejected for its age: there a non-zero stake whose weighted hash meets the
\* target passes.
C6_MinAgeEnforced ==
    Returned("CheckStakeKernelHash") =>
        /\ TooYoung(args) => ret = FALSE
        /\ ( /\ args.nTimeTx = args.blockFrom.nTime + args.params.nStakeMinAge
             /\ StakedValue(args) # 0
             /\ LessEq(DivU64(args.hashProofOfStake, StakedValue(args)),
                       SetCompact(args.nBits).v) )
           => ret = TRUE

\* a call that passes with the candidate time exactly at the minimum age
C6_Witness ==
    /\ Returned("CheckStakeKernelHash")
    /\ args.params.nStakeMinAge > 0
    /\ args.nTimeTx = args.blockFrom.nTime + args.params.nStakeMinAge
    /\ ret = TRUE

\* a call one second short of the minimum age whose hash meets the target
C6_WitnessShort ==
    /\ Returned("CheckStakeKernelHash")
    /\ args.nTimeTx = args.blockFrom.nTime + args.params.nStakeMinAge - 1
    /\ StakedValue(args) # 0
    /\ LessEq(DivU64(args.hashProofOfStake, StakedValue(args)), SetCompact(args.nBits).v)
    /\ ret = FALSE

\* the coin of a CheckKernel call was found: the previous transaction, the
\* block that confirmed it, and the transaction in the local wallet
CoinFound(a) == a.env.txFound /\ a.env.blockKnown /\ a.env.inWallet

\* C7: CheckKernel returns true only when the previous transaction and its
\* confirming block were found, the minimum age is met and
\* CheckStakeKernelHash on the coin returns true; when the previous
\* transaction is missing, the confirming block unknown, or the transaction
\* absent from the wallet, it returns false.
C7_CheckKernelCoinNotFound ==
    Returned("CheckKernel") =>
        /\ ret.ret = TRUE =>
              /\ args.env.txFound
              /\ args.env.blockKnown
              /\ ~(args.env.blockFrom.nTime + args.params.nStakeMinAge > args.nTime)
              /\ CheckStakeKernelHash(args.nBits, args.env.blockFrom, args.env.txPrev,
                                      args.prevout, args.nTime, args.params,
                                      args.env.hashProofOfStake, args.env.oob)
        /\ ~CoinFound(args) => ret.ret = FALSE

\* the first of the five checks of CheckProofOfStake that fails, 0 for none:
\* coinstake marker, previous transaction, signature of input 0, confirming
\* block, kernel hash
FirstFailure(a) ==
    IF ~a.tx.fCoinStake THEN 1
    ELSE IF ~a.env.txFound THEN 2
    ELSE IF ~( /\ a.tx.vin[1].prevout.n < Len(a.env.txPrev.vout)
               /\ a.tx.vin[1].prevout.hash = a.env.txPrev.hash
               /\ a.env.scriptOK ) THEN 3
    ELSE IF ~a.env.blockKnown THEN 4
    ELSE IF ~CheckStakeKernelHash(a.nBits, a.env.blockFrom, a.env.txPrev,
                                  a.tx.vin[1].prevout, a.tx.nTime, a.params,
                                  a.env.hashProofOfStake, a.env.oob) THEN 5
    ELSE 0

\* C8: CheckProofOfStake succeeds only if the five checks pass in their
\* order; the first failing check decides: penalty 100 exactly when it is the
\* signature, penalty 1 exactly when it is the kernel hash, and the
\* validation state untouched when it is the coinstake marker, the previous
\* transaction or the confirming block.
C8_ProofOfStakePenalties ==
    Returned("CheckProofOfStake") =>
        /\ ret.ret = (FirstFailure(args) = 0)
        /\ FirstFailure(args) = 3 <=> ret.state.nDoS = args.state.nDoS + 100
        /\ FirstFailure(args) = 5 <=> ret.state.nDoS = args.state.nDoS + 1
        /\ FirstFailure(args) \in {0, 1, 2, 4} => ret.state = args.state

\* a coinstake with a bad signature whose confirming block is unknown too:
\* the signature, checked first, decides
C8_Witness ==
    /\ Returned("CheckProofOfStake")
    /\ args.tx.fCoinStake
    /\ args.env.txFound
    /\ ~args.env.scriptOK
    /\ ~args.env.blockKnown
    /\ ret.state.nDoS = args.state.nDoS + 100

\* a coinstake that fails the kernel hash only
C8_WitnessKernel ==
    /\ Returned("CheckProofOfStake")
    /\ FirstFailure(args) = 5
    /\ ret.state.nDoS = args.state.nDoS + 1

\* C9: CheckCoinStakeTimestamp returns false whenever the transaction time
\* has a bit of the stake timestamp mask set and whenever the block time
\* differs from the transaction time, so CheckStakeBlockTimestamp(t) returns
\* false for every t with a bit of the mask set.
C9_TimestampRejected ==
    /\ Returned("CheckCoinStakeTimestamp") =>
          ( ( \/ BitAnd(args.nTimeTx, args.params.nStakeTimestampMask) # 0
              \/ args.nTimeBlock # args.nTimeTx ) => ret = FALSE )
    /\ Returned("CheckStakeBlockTimestamp") =>
          (BitAnd(args.nTimeBlock, args.params.nStakeTimestampMask) # 0 => ret = FALSE)

\* C10: over any sequence of CacheKernel calls no entry is removed or
\* overwritten; a call for a cached outpoint leaves the cache unchanged and
\* reads no storage, a call whose transaction read or block read fails leaves
\* the cache unchanged, and any other call adds one entry, under its
\* outpoint, and changes no other.
C10_CacheOnlyGrows ==
    [][ op = "CacheKernel" =>
          LET o == ret'.prevout
          IN  /\ \A k \in DOMAIN cache : k \in DOMAIN cache' /\ cache'[k] = cache[k]
              /\ o \in DOMAIN cache => cache' = cache /\ ret'.nReads = 0
              /\ o \notin DOMAIN cache /\ ~(ret'.txRead /\ ret'.blockRead)
                    => cache' = cache
              /\ o \notin DOMAIN cache /\ ret'.txRead /\ ret'.blockRead
                    => DOMAIN cache' = DOMAIN cache \cup {o} ]_vars

\* a call for an outpoint that is cached, with another entry beside it
C10_Witness ==
    /\ Returned("CacheKernel")
    /\ Cardinality(DOMAIN cache) >= 2
    /\ ret.prevout \in DOMAIN cache
    /\ ret.nReads = 0

====
